---- MODULE Spec2Model ----
(***************************************************************************)
(* Lucky-Draw-Grouping: the App component of src/src/App.tsx as a state    *)
(* machine.  The component's useState cells are the variables, every UI    *)
(* event handler and every asynchronous callback (the CSV parse            *)
(* completion, the setInterval tick) is one action.                        *)
(*                                                                         *)
(* Strings are sequences of one-character strings, so that split, trim     *)
(* and parseInt are computed as the code computes them.                    *)
(*                                                                         *)
(* activeTab is not modelled: switching tabs is always possible, changes   *)
(* no other state cell and only decides which buttons are on screen, so    *)
(* every interleaving of the handlers below is one the user can produce.   *)
(***************************************************************************)
EXTENDS Integers, Sequences, FiniteSets, TLC

VARIABLES
    participants,      \* useState<Participant[]>([])            (line 28)
    inputText,         \* useState('')                           (line 29)
    autoDeduplicate,   \* useState(true)                         (line 30)
    drawHistory,       \* useState<Participant[]>([])            (line 33)
    isDrawing,         \* useState(false)                        (line 34)
    currentWinner,     \* useState<Participant | null>(null)     (line 35)
    allowRepeat,       \* useState(false)                        (line 36)
    groupSize,         \* useState(3)                            (line 39)
    groups,            \* useState<Participant[][]>([])          (line 40)
    pendingParses,     \* Papa.parse calls whose complete callback has not run yet
    timers,            \* live setInterval timers with the closure each one captured
    nextId,            \* one more than the number of ids handed out so far
    hung,              \* the event loop is stuck inside a handler that never returns
    last,              \* history variable: the handler that ran last, and what it saw
    cleanRun,          \* history variable: allowRepeat never on, history never cleared
    clearedAt,         \* history variable: how many ids the last Clear All found handed out
    download           \* the rows of the groups.csv downloaded last (csvData)

vars == <<participants, inputText, autoDeduplicate, drawHistory, isDrawing,
          currentWinner, allowRepeat, groupSize, groups, pendingParses, timers,
          nextId, hung, last, cleanRun, clearedAt, download>>

-----------------------------------------------------------------------------
(* Bounds of the model *)

\* the ParticipantList never grows beyond this many entries
MaxParticipants == 4
\* at most this many ids are handed out in one behaviour
MaxId == 5
\* draws start only while the history is shorter than this
MaxHistory == 2
\* at most this many CSV parses are in flight at once
MaxPending == 1
\* files are imported into lists of at most this many entries, with as many ids
MaxUploaded == 3
\* the draw engine is explored on lists of at most this many entries, with
\* as many ids
MaxDrawn == 2
\* side by side with the grouping engine, at most this many draws are run
MaxSessionDraws == 1
\* the grouping engine is explored on lists of at most this many entries
MaxGrouped == 4
\* the export is explored on GroupSets of lists of at most this many entries
MaxExported == 21
\* where Math.random may return what it returned before, it is called at most
\* this many times, with as many outcomes, for lists of as many entries
MaxRandom == 3

-----------------------------------------------------------------------------
(* Strings *)

\* the null of Participant | null: a value that is no participant (no
\* participant has an empty name)
NoWinner == [id |-> 0, name |-> <<>>]

\* characters String.prototype.trim strips (those that occur in the inputs)
WhiteSpace == {" ", "\n"}

RECURSIVE TrimStart(_)
TrimStart(s) ==
    IF s # <<>> /\ Head(s) \in WhiteSpace THEN TrimStart(Tail(s)) ELSE s

RECURSIVE TrimEnd(_)
TrimEnd(s) ==
    IF s # <<>> /\ s[Len(s)] \in WhiteSpace
    THEN TrimEnd(SubSeq(s, 1, Len(s) - 1))
    ELSE s

\* n.trim()
Trim(s) == TrimEnd(TrimStart(s))

\* index of the first "\n" of s, 0 when there is none
RECURSIVE IndexOfNewline(_, _)
IndexOfNewline(s, i) ==
    IF i > Len(s) THEN 0
    ELSE IF s[i] = "\n" THEN i
    ELSE IndexOfNewline(s, i + 1)

\* inputText.split('\n'): always at least one piece
RECURSIVE SplitLines(_)
SplitLines(s) ==
    LET k == IndexOfNewline(s, 1) IN
    IF k = 0 THEN <<s>>
    ELSE <<SubSeq(s, 1, k - 1)>> \o SplitLines(SubSeq(s, k + 1, Len(s)))

\* arr.map(n => n.trim())
TrimAll(ss) == [i \in 1..Len(ss) |-> Trim(ss[i])]

NonEmpty(s) == s # <<>>

\* a cleaning without the filter: a blank line leaves an empty name
TrimmedOnly(ss) == TrimAll(ss)

\* .map(n => n.trim()).filter(n => n !== '')
CleanNames(ss) == SelectSeq(TrimAll(ss), NonEmpty)

\* results.data.flat(): the rows' cells, row after row
RECURSIVE Flat(_)
Flat(rows) == IF rows = <<>> THEN <<>> ELSE Head(rows) \o Flat(Tail(rows))

-----------------------------------------------------------------------------
(* Inputs *)

\* what the user may have typed into the textarea (line 220)
Texts ==
    { <<>>,
      <<"a">>,
      <<" ", "a", "\n", "A">>,
      <<"a", "\n", "\n", "a", " ">>,
      <<"b", "\n", " ">> }

\* results.data of the files the user may upload: rows of cells, each cell a
\* string (header: false, no dynamic typing, so String(n) is n itself)
Files ==
    { <<>>,
      << << <<"a">>, <<" ", "a", " ">> >>, << <<>> >> >>,
      << << <<"A">> >>, << <<" ">>, <<"b">> >> >> }

-----------------------------------------------------------------------------
(* Participant store *)

NameSet(ps) == {ps[i].name : i \in 1..Len(ps)}
IdSet(ps) == {ps[i].id : i \in 1..Len(ps)}

\* names.map(name => ({ id: Math.random().toString(36).substr(2, 9), name }))
\* every name gets an id, also the names the dedupe filter drops afterwards;
\* ids[i] is what the i-th call of Math.random came to
NewParticipants(names, ids) ==
    [i \in 1..Len(names) |-> [id |-> ids[i], name |-> names[i]]]

\* a filter that never adds the names it lets through to existingNames
RECURSIVE FilterNewForgetful(_, _)
FilterNewForgetful(existingNames, ps) ==
    IF ps = <<>> THEN <<>>
    ELSE IF Head(ps).name \in existingNames
         THEN FilterNewForgetful(existingNames, Tail(ps))
         ELSE <<Head(ps)>> \o FilterNewForgetful(existingNames, Tail(ps))

\* newParticipants.filter(p => { if (existingNames.has(p.name)) return false;
\*                               existingNames.add(p.name); return true; })
RECURSIVE FilterNew(_, _)
FilterNew(existingNames, ps) ==
    IF ps = <<>> THEN <<>>
    ELSE IF Head(ps).name \in existingNames
         THEN FilterNew(existingNames, Tail(ps))
         ELSE <<Head(ps)>> \o FilterNew(existingNames \cup {Head(ps).name}, Tail(ps))

\* the entries an import appends: existing is the participants array the
\* handler's closure holds, dedupe its autoDeduplicate
Imported(names, ids, existing, dedupe) ==
    IF dedupe
    THEN FilterNew(NameSet(existing), NewParticipants(names, ids))
    ELSE NewParticipants(names, ids)

\* participants.filter(p => { const duplicate = seen.has(p.name);
\*                            seen.add(p.name); return !duplicate; })
RECURSIVE UniqueFrom(_, _)
UniqueFrom(seen, ps) ==
    IF ps = <<>> THEN <<>>
    ELSE IF Head(ps).name \in seen
         THEN UniqueFrom(seen \cup {Head(ps).name}, Tail(ps))
         ELSE <<Head(ps)>> \o UniqueFrom(seen \cup {Head(ps).name}, Tail(ps))

\* a deduplication that keeps the last entry of each name
RECURSIVE UniqueKeepingLast(_)
UniqueKeepingLast(ps) ==
    IF ps = <<>> THEN <<>>
    ELSE IF Head(ps).name \in NameSet(Tail(ps))
         THEN UniqueKeepingLast(Tail(ps))
         ELSE <<Head(ps)>> \o UniqueKeepingLast(Tail(ps))

\* the deduplicate handler's filter, started on an empty seen set
Unique(ps) == UniqueFrom({}, ps)

RemoveAt(s, i) == SubSeq(s, 1, i - 1) \o SubSeq(s, i + 1, Len(s))

\* the first position of ps whose entry has this id, 0-based, -1 when none has
RECURSIVE FindIndex(_, _, _)
FindIndex(ps, id, i) ==
    IF i > Len(ps) THEN 0 - 1
    ELSE IF ps[i].id = id THEN i - 1
    ELSE FindIndex(ps, id, i + 1)

\* a removal by position, prev.splice(prev.findIndex(...), 1): the position
\* -1 of an id that no entry has is the last entry's
SpliceFoundIndex(ps, id) ==
    LET k == FindIndex(ps, id, 1)
        at == IF k < 0 THEN Len(ps) + k ELSE k
    IN  IF ps = <<>> THEN ps ELSE RemoveAt(ps, at + 1)

\* prev.filter(item => item.id !== id)
WithoutId(ps, id) == SelectSeq(ps, LAMBDA item : item.id # id)

\* the handlers run on the event loop: none runs while one never returns
Responsive == ~hung

\* The room a specification gives the unbounded parts of the state: the
\* ParticipantList holds at most room.entries entries, at most room.ids ids
\* are handed out, and draws start while the history is shorter than room.draws.
\* In such a room every id is fresh: no call of Math.random returns what an
\* earlier call returned.
Room(entries, ids, draws) ==
    [entries |-> entries, ids |-> ids, draws |-> draws, fresh |-> TRUE]

\* The same room with every outcome of Math.random: each call returns any of
\* the room's ids, also one that an earlier call returned.
RoomOfCollisions(entries, ids, draws) ==
    [Room(entries, ids, draws) EXCEPT !.fresh = FALSE]

\* what n calls of Math.random().toString(36).substr(2, 9) come to
RandomIds(room, n) ==
    IF room.fresh THEN {[i \in 1..n |-> nextId + i - 1]}
    ELSE [1..n -> 1..room.ids]

Note(op, note) == [op |-> op, note |-> note]

\* textarea onChange
SetInputText(text) ==
    /\ Responsive
    /\ text # inputText
    /\ inputText' = text
    /\ last' = Note("SetInputText", <<>>)
    /\ UNCHANGED <<participants, autoDeduplicate, drawHistory, isDrawing,
                   currentWinner, allowRepeat, groupSize, groups, pendingParses,
                   timers, nextId, hung, cleanRun, clearedAt, download>>

HandleAddFromText(room) ==
    LET names == CleanNames(SplitLines(inputText)) IN
    /\ Responsive
    /\ nextId + Len(names) - 1 <= room.ids
    /\ \E ids \in RandomIds(room, Len(names)) :
           LET newParticipants ==
                   Imported(names, ids, participants, autoDeduplicate)
           IN
           /\ Len(participants) + Len(newParticipants) <= room.entries
           /\ participants' = participants \o newParticipants
    /\ inputText' = <<>>
    /\ nextId' = nextId + Len(names)
    /\ last' = Note("HandleAddFromText", names)
    /\ UNCHANGED <<autoDeduplicate, drawHistory, isDrawing, currentWinner,
                   allowRepeat, groupSize, groups, pendingParses, timers, hung,
                   cleanRun, clearedAt, download>>

\* the Auto-Deduplicate switch
ToggleAutoDeduplicate ==
    /\ Responsive
    /\ autoDeduplicate' = ~autoDeduplicate
    /\ last' = Note("ToggleAutoDeduplicate", <<>>)
    /\ UNCHANGED <<participants, inputText, drawHistory, isDrawing, currentWinner,
                   allowRepeat, groupSize, groups, pendingParses, timers, nextId,
                   hung, cleanRun, clearedAt, download>>

\* the file input's onChange: Papa.parse reads the file asynchronously; its
\* complete callback keeps the participants and autoDeduplicate of this render
HandleFileUpload(data) ==
    /\ Responsive
    /\ Len(pendingParses) < MaxPending
    /\ pendingParses' = Append(pendingParses,
                               [data |-> data, participants |-> participants,
                                autoDeduplicate |-> autoDeduplicate])
    /\ last' = Note("HandleFileUpload", <<>>)
    /\ UNCHANGED <<participants, inputText, autoDeduplicate, drawHistory,
                   isDrawing, currentWinner, allowRepeat, groupSize, groups,
                   timers, nextId, hung, cleanRun, clearedAt, download>>

\* Papa.parse's complete callback of the i-th parse in flight
ParseComplete(i, room) ==
    LET job == pendingParses[i]
        names == CleanNames(Flat(job.data))
    IN
    /\ Responsive
    /\ nextId + Len(names) - 1 <= room.ids
    /\ \E ids \in RandomIds(room, Len(names)) :
           LET newParticipants ==
                   Imported(names, ids, job.participants, job.autoDeduplicate)
           IN
           /\ Len(participants) + Len(newParticipants) <= room.entries
           /\ participants' = participants \o newParticipants
    /\ nextId' = nextId + Len(names)
    /\ pendingParses' = RemoveAt(pendingParses, i)
    /\ last' = Note("ParseComplete", names)
    /\ UNCHANGED <<inputText, autoDeduplicate, drawHistory, isDrawing,
                   currentWinner, allowRepeat, groupSize, groups, timers, hung,
                   cleanRun, clearedAt, download>>

\* the Manual Deduplicate button (disabled on an empty list)
Deduplicate ==
    /\ Responsive
    /\ Len(participants) # 0
    /\ participants' = Unique(participants)
    /\ last' = Note("Deduplicate", participants)
    /\ UNCHANGED <<inputText, autoDeduplicate, drawHistory, isDrawing,
                   currentWinner, allowRepeat, groupSize, groups, pendingParses,
                   timers, nextId, hung, cleanRun, clearedAt, download>>

\* a Clear All that empties the list and the history and keeps the groups
ClearParticipantsKeepingGroups ==
    /\ Responsive
    /\ Len(participants) # 0
    /\ participants' = <<>>
    /\ drawHistory' = <<>>
    /\ cleanRun' = FALSE
    /\ clearedAt' = nextId - 1
    /\ UNCHANGED download
    /\ last' = Note("ClearParticipants",
                    [history |-> Len(drawHistory), groups |-> Len(groups)])
    /\ UNCHANGED <<inputText, autoDeduplicate, isDrawing, currentWinner,
                   allowRepeat, groupSize, groups, pendingParses, timers, nextId,
                   hung>>

\* the Clear All button (disabled on an empty list)
ClearParticipants ==
    /\ Responsive
    /\ Len(participants) # 0
    /\ participants' = <<>>
    /\ drawHistory' = <<>>
    /\ groups' = <<>>
    /\ cleanRun' = FALSE
    /\ clearedAt' = nextId - 1
    /\ UNCHANGED download
    /\ last' = Note("ClearParticipants",
                    [history |-> Len(drawHistory), groups |-> Len(groups)])
    /\ UNCHANGED <<inputText, autoDeduplicate, isDrawing, currentWinner,
                   allowRepeat, groupSize, pendingParses, timers, nextId, hung>>

\* a removal that takes the participant out of the draw history as well
RemoveParticipantFromHistory(i) ==
    /\ Responsive
    /\ i \in 1..Len(participants)
    /\ participants' = WithoutId(participants, participants[i].id)
    /\ drawHistory' = WithoutId(drawHistory, participants[i].id)
    /\ last' = Note("RemoveParticipant", participants[i].id)
    /\ UNCHANGED <<inputText, autoDeduplicate, isDrawing, currentWinner,
                   allowRepeat, groupSize, groups, pendingParses, timers, nextId,
                   hung, cleanRun, clearedAt, download>>

\* the trash button of the i-th row of the list
RemoveParticipant(i) ==
    /\ Responsive
    /\ i \in 1..Len(participants)
    /\ participants' = WithoutId(participants, participants[i].id)
    /\ last' = Note("RemoveParticipant", participants[i].id)
    /\ UNCHANGED <<inputText, autoDeduplicate, drawHistory, isDrawing,
                   currentWinner, allowRepeat, groupSize, groups, pendingParses,
                   timers, nextId, hung, cleanRun, clearedAt, download>>

-----------------------------------------------------------------------------
(* Draw engine *)

duration == 2000
interval == 50
\* const steps = duration / interval
steps == duration \div interval

InHistory(history, p) == \E k \in 1..Len(history) : history[k].id = p.id

\* a memo that forgets the history: every participant stays eligible
AvailableIgnoringHistory(ps, history, repeat) == ps

\* the availableParticipants memo of a render with these state cells
Available(ps, history, repeat) ==
    IF repeat THEN ps
    ELSE SelectSeq(ps, LAMBDA p : ~InHistory(history, p))

availableParticipants == Available(participants, drawHistory, allowRepeat)

\* a button that is disabled on an empty eligible set only
DrawDisabledWhenEmpty == Len(availableParticipants) = 0

\* the DRAW NOW button's disabled attribute
DrawDisabled == isDrawing \/ Len(availableParticipants) = 0

\* a startDraw that tests neither the button's eligible set nor its own
StartDrawUnguarded(room) ==
    /\ Responsive
    /\ ~isDrawing
    /\ Len(drawHistory) < room.draws
    /\ isDrawing' = TRUE
    /\ currentWinner' = NoWinner
    /\ timers' = Append(timers, [available |-> availableParticipants, counter |-> 0])
    /\ last' = Note("StartDraw", <<>>)
    /\ UNCHANGED <<participants, inputText, autoDeduplicate, drawHistory,
                   allowRepeat, groupSize, groups, pendingParses, nextId, hung,
                   cleanRun, clearedAt, download>>

\* a startDraw that leaves the display as the last draw left it
StartDrawKeepingDisplay(room) ==
    /\ Responsive
    /\ ~DrawDisabled
    /\ Len(availableParticipants) # 0
    /\ Len(drawHistory) < room.draws
    /\ isDrawing' = TRUE
    /\ timers' = Append(timers, [available |-> availableParticipants, counter |-> 0])
    /\ last' = Note("StartDraw", <<>>)
    /\ UNCHANGED <<participants, inputText, autoDeduplicate, drawHistory,
                   currentWinner, allowRepeat, groupSize, groups, pendingParses,
                   nextId, hung, cleanRun, clearedAt, download>>

\* the DRAW NOW button: startDraw up to the setInterval call.  The timer's
\* callback keeps the availableParticipants of this render and its own counter.
StartDraw(room) ==
    /\ Responsive
    /\ ~DrawDisabled
    /\ Len(availableParticipants) # 0
    /\ Len(drawHistory) < room.draws
    /\ isDrawing' = TRUE
    /\ currentWinner' = NoWinner
    /\ timers' = Append(timers, [available |-> availableParticipants, counter |-> 0])
    /\ last' = Note("StartDraw", <<>>)
    /\ UNCHANGED <<participants, inputText, autoDeduplicate, drawHistory,
                   allowRepeat, groupSize, groups, pendingParses, nextId, hung,
                   cleanRun, clearedAt, download>>

\* a callback that reads the eligible set of the latest render instead
RenderAvailable(timer) == availableParticipants

\* availableParticipants as the timer's callback reads it: the array of the
\* render that called startDraw, which the closure keeps
ClosureAvailable(timer) == timer.available

\* a callback whose final tick leaves the flicker on display
TickShowingFlicker(t, shown) ==
    LET timer == timers[t]
        counter == timer.counter + 1
    IN
    /\ Responsive
    /\ shown \in 1..Len(ClosureAvailable(timer))
    /\ currentWinner' = ClosureAvailable(timer)[shown]
    /\ IF counter >= steps
       THEN \E final \in 1..Len(ClosureAvailable(timer)) :
                LET finalWinner == ClosureAvailable(timer)[final] IN
                /\ timers' = RemoveAt(timers, t)
                /\ drawHistory' = <<finalWinner>> \o drawHistory
                /\ isDrawing' = FALSE
                /\ last' = Note("Tick", <<ClosureAvailable(timer)[shown]>>)
       ELSE /\ timers' = [timers EXCEPT ![t].counter = counter]
            /\ last' = Note("Tick", <<>>)
            /\ UNCHANGED <<drawHistory, isDrawing>>
    /\ UNCHANGED <<participants, inputText, autoDeduplicate, allowRepeat,
                   groupSize, groups, pendingParses, nextId, hung, cleanRun,
                   clearedAt, download>>

\* one run of the setInterval callback of the t-th live timer; shown is the
\* value of randomIndex, as a 1-based index, and the final tick draws once more
Tick(t, shown) ==
    LET timer == timers[t]
        counter == timer.counter + 1
    IN
    /\ Responsive
    /\ shown \in 1..Len(ClosureAvailable(timer))
    /\ IF counter >= steps
       THEN \E final \in 1..Len(ClosureAvailable(timer)) :
                LET finalWinner == ClosureAvailable(timer)[final] IN
                /\ timers' = RemoveAt(timers, t)
                /\ currentWinner' = finalWinner
                /\ drawHistory' = <<finalWinner>> \o drawHistory
                /\ isDrawing' = FALSE
                /\ last' = Note("Tick", <<ClosureAvailable(timer)[shown]>>)
       ELSE /\ timers' = [timers EXCEPT ![t].counter = counter]
            /\ currentWinner' = ClosureAvailable(timer)[shown]
            /\ last' = Note("Tick", <<>>)
            /\ UNCHANGED <<drawHistory, isDrawing>>
    /\ UNCHANGED <<participants, inputText, autoDeduplicate, allowRepeat,
                   groupSize, groups, pendingParses, nextId, hung, cleanRun, clearedAt, download>>

\* the Allow Repeated Winners switch
ToggleAllowRepeat ==
    /\ Responsive
    /\ allowRepeat' = ~allowRepeat
    /\ cleanRun' = FALSE
    /\ last' = Note("ToggleAllowRepeat", <<>>)
    /\ UNCHANGED <<clearedAt, download>>
    /\ UNCHANGED <<participants, inputText, autoDeduplicate, drawHistory,
                   isDrawing, currentWinner, groupSize, groups, pendingParses,
                   timers, nextId, hung>>

\* a Clear that forgets the earlier winners and keeps the latest
ClearOlderHistory ==
    /\ Responsive
    /\ drawHistory' = IF drawHistory = <<>> THEN <<>> ELSE <<Head(drawHistory)>>
    /\ cleanRun' = FALSE
    /\ last' = Note("ClearHistory", Len(drawHistory))
    /\ UNCHANGED <<clearedAt, download>>
    /\ UNCHANGED <<participants, inputText, autoDeduplicate, isDrawing,
                   currentWinner, allowRepeat, groupSize, groups, pendingParses,
                   timers, nextId, hung>>

\* the history panel's Clear button
ClearHistory ==
    /\ Responsive
    /\ drawHistory' = <<>>
    /\ cleanRun' = FALSE
    /\ last' = Note("ClearHistory", Len(drawHistory))
    /\ UNCHANGED <<clearedAt, download>>
    /\ UNCHANGED <<participants, inputText, autoDeduplicate, isDrawing,
                   currentWinner, allowRepeat, groupSize, groups, pendingParses,
                   timers, nextId, hung>>

-----------------------------------------------------------------------------
(* Grouping engine *)

Digits == {"0", "1", "2", "3", "4", "5", "6", "7", "8", "9"}

DigitValue(c) ==
    CASE c = "0" -> 0 [] c = "1" -> 1 [] c = "2" -> 2 [] c = "3" -> 3
      [] c = "4" -> 4 [] c = "5" -> 5 [] c = "6" -> 6 [] c = "7" -> 7
      [] c = "8" -> 8 [] c = "9" -> 9

\* the value of the longest prefix of s made of digits, read after acc
RECURSIVE DigitsValue(_, _)
DigitsValue(s, acc) ==
    IF s = <<>> \/ Head(s) \notin Digits THEN acc
    ELSE DigitsValue(Tail(s), 10 * acc + DigitValue(Head(s)))

\* parseInt(s): leading white space, a sign, then digits up to the first other
\* character; NaN when no digit follows
ParseInt(s) ==
    LET t == TrimStart(s)
        signed == t # <<>> /\ Head(t) \in {"-", "+"}
        body == IF signed THEN Tail(t) ELSE t
        magnitude == DigitsValue(body, 0)
    IN
    IF body = <<>> \/ Head(body) \notin Digits
    THEN [nan |-> TRUE, value |-> 0]
    ELSE [nan |-> FALSE,
          value |-> IF signed /\ Head(t) = "-" THEN 0 - magnitude ELSE magnitude]

\* parseInt(e.target.value) || 1: NaN and 0 are falsy
ParsedGroupSize(s) ==
    LET n == ParseInt(s) IN
    IF n.nan \/ n.value = 0 THEN 1 ELSE n.value

\* the values e.target.value of the number input may take ("" when the field
\* holds no valid number)
SizeInputs ==
    { <<>>, <<"0">>, <<"1">>, <<"2">>, <<"2", ".", "5">>, <<"-", "1">> }

\* the People per Group input's onChange
SetGroupSize(s) ==
    /\ Responsive
    /\ groupSize' = ParsedGroupSize(s)
    /\ last' = Note("SetGroupSize", <<>>)
    /\ UNCHANGED <<participants, inputText, autoDeduplicate, drawHistory,
                   isDrawing, currentWinner, allowRepeat, groups, pendingParses,
                   timers, nextId, hung, cleanRun, clearedAt, download>>

Min(a, b) == IF a < b THEN a ELSE b
Max(a, b) == IF a > b THEN a ELSE b

\* a 0-based slice bound of Array.prototype.slice: negative counts from the end
SliceIndex(k, len) == IF k < 0 THEN Max(len + k, 0) ELSE Min(k, len)

\* a slice that takes the element at end as well
SliceThroughEnd(arr, start, end) ==
    SubSeq(arr, SliceIndex(start, Len(arr)) + 1,
           Min(SliceIndex(end, Len(arr)) + 1, Len(arr)))

\* arr.slice(start, end)
Slice(arr, start, end) ==
    SubSeq(arr, SliceIndex(start, Len(arr)) + 1, SliceIndex(end, Len(arr)))

\* [...participants].sort(() => Math.random() - 0.5): with a comparator that
\* is not consistent the order is implementation-defined, any permutation
Shuffles(ps) ==
    {[i \in 1..Len(ps) |-> ps[f[i]]] : f \in Permutations(1..Len(ps))}

\* more iterations than a loop that advances through the list can take
LoopFuel == Max(MaxParticipants, MaxGrouped) + 1

\* for (let i = 0; i < shuffled.length; i += size)
\*     newGroups.push(shuffled.slice(i, i + size));
\* returned is false when the loop is still running after LoopFuel iterations
RECURSIVE GroupingLoop(_, _, _, _, _)
GroupingLoop(shuffled, size, i, newGroups, fuel) ==
    IF ~(i < Len(shuffled)) THEN [returned |-> TRUE, newGroups |-> newGroups]
    ELSE IF fuel = 0 THEN [returned |-> FALSE, newGroups |-> newGroups]
    ELSE GroupingLoop(shuffled, size, i + size,
                      Append(newGroups, Slice(shuffled, i, i + size)), fuel - 1)

\* a Generate Groups that adds the new groups to the ones there are
HandleGroupingAppending ==
    /\ Responsive
    /\ Len(participants) # 0
    /\ \E shuffled \in Shuffles(participants) :
           LET run == GroupingLoop(shuffled, groupSize, 0, <<>>, LoopFuel) IN
           IF run.returned
           THEN /\ groups' = groups \o run.newGroups
                /\ UNCHANGED hung
           ELSE /\ hung' = TRUE
                /\ UNCHANGED groups
    /\ last' = Note("HandleGrouping", Len(Flat(groups)))
    /\ UNCHANGED <<participants, inputText, autoDeduplicate, drawHistory,
                   isDrawing, currentWinner, allowRepeat, groupSize,
                   pendingParses, timers, nextId, cleanRun, clearedAt, download>>

\* the Generate Groups button (disabled on an empty list)
HandleGrouping ==
    /\ Responsive
    /\ Len(participants) # 0
    /\ \E shuffled \in Shuffles(participants) :
           LET run == GroupingLoop(shuffled, groupSize, 0, <<>>, LoopFuel) IN
           IF run.returned
           THEN /\ groups' = run.newGroups
                /\ UNCHANGED hung
           ELSE /\ hung' = TRUE
                /\ UNCHANGED groups
    /\ last' = Note("HandleGrouping", Len(Flat(groups)))
    /\ UNCHANGED <<participants, inputText, autoDeduplicate, drawHistory,
                   isDrawing, currentWinner, allowRepeat, groupSize,
                   pendingParses, timers, nextId, cleanRun, clearedAt, download>>

-----------------------------------------------------------------------------
(* Export *)

DigitChar(d) ==
    CASE d = 0 -> "0" [] d = 1 -> "1" [] d = 2 -> "2" [] d = 3 -> "3"
      [] d = 4 -> "4" [] d = 5 -> "5" [] d = 6 -> "6" [] d = 7 -> "7"
      [] d = 8 -> "8" [] d = 9 -> "9"

\* a natural number in a template literal: its decimal digits
RECURSIVE Decimal(_)
Decimal(n) ==
    IF n < 10 THEN <<DigitChar(n)>>
    ELSE Decimal(n \div 10) \o <<DigitChar(n % 10)>>

\* a label that counts the groups from 0
GroupLabelFromZero(idx) == <<"G", "r", "o", "u", "p", " ">> \o Decimal(idx)

\* `Group ${idx + 1}`, idx the 0-based index flatMap passes
GroupLabel(idx) == <<"G", "r", "o", "u", "p", " ">> \o Decimal(idx + 1)

\* group.map(p => ({ Group: `Group ${idx + 1}`, Name: p.name }))
GroupRows(group, idx) ==
    [m \in 1..Len(group) |-> [Group |-> GroupLabel(idx), Name |-> group[m].name]]

\* groups.flatMap((group, idx) => ...): the rows of the groups from the
\* idx-th on, group after group
RECURSIVE CsvData(_, _)
CsvData(gs, idx) ==
    IF idx >= Len(gs) THEN <<>>
    ELSE GroupRows(gs[idx + 1], idx) \o CsvData(gs, idx + 1)

\* the Export CSV button (on screen when there are groups): the rows it
\* hands to Papa.unparse for the file groups.csv
ExportGroupsCSV ==
    /\ Responsive
    /\ Len(groups) > 0
    /\ download' = CsvData(groups, 0)
    /\ last' = Note("ExportGroupsCSV", <<>>)
    /\ UNCHANGED <<participants, inputText, autoDeduplicate, drawHistory,
                   isDrawing, currentWinner, allowRepeat, groupSize, groups,
                   pendingParses, timers, nextId, hung, cleanRun, clearedAt>>

-----------------------------------------------------------------------------
(* The component *)

Init ==
    /\ participants = <<>>
    /\ inputText = <<>>
    /\ autoDeduplicate = TRUE
    /\ drawHistory = <<>>
    /\ isDrawing = FALSE
    /\ currentWinner = NoWinner
    /\ allowRepeat = FALSE
    /\ groupSize = 3
    /\ groups = <<>>
    /\ pendingParses = <<>>
    /\ timers = <<>>
    /\ nextId = 1
    /\ hung = FALSE
    /\ last = Note("Init", <<>>)
    /\ cleanRun = TRUE
    /\ clearedAt = 0
    /\ download = <<>>

\* the room each specification below gives its behaviours
StoreRoom == Room(MaxParticipants, MaxId, MaxHistory)
UploadRoom == Room(MaxUploaded, MaxUploaded, MaxHistory)
DrawRoom == Room(MaxDrawn, MaxDrawn, MaxHistory)
SessionRoom == Room(MaxDrawn, MaxDrawn, MaxSessionDraws)
RandomRoom == RoomOfCollisions(MaxRandom, MaxRandom, MaxHistory)

\* The whole component.  Its state space is the product of the store's, the
\* draw engine's (40 ticks a draw) and the grouping engine's, so the
\* properties are checked under the specifications that follow: each takes
\* the handlers of one part of the component together with the handlers that
\* write the cells this part reads.
Next ==
    \/ \E text \in Texts : SetInputText(text)
    \/ HandleAddFromText(StoreRoom)
    \/ ToggleAutoDeduplicate
    \/ \E data \in Files : HandleFileUpload(data)
    \/ \E i \in 1..Len(pendingParses) : ParseComplete(i, StoreRoom)
    \/ Deduplicate
    \/ ClearParticipants
    \/ \E i \in 1..Len(participants) : RemoveParticipant(i)
    \/ StartDraw(StoreRoom)
    \/ \E t \in 1..Len(timers) :
           \E shown \in 1..Len(ClosureAvailable(timers[t])) : Tick(t, shown)
    \/ ToggleAllowRepeat
    \/ ClearHistory
    \/ \E s \in SizeInputs : SetGroupSize(s)
    \/ HandleGrouping
    \/ ExportGroupsCSV

Spec == Init /\ [][Next]_vars

\* The synchronous operations of the participant store: the draw and
\* grouping cells keep their initial values and no file is uploaded.
NextStore ==
    \/ \E text \in Texts : SetInputText(text)
    \/ HandleAddFromText(StoreRoom)
    \/ ToggleAutoDeduplicate
    \/ Deduplicate
    \/ ClearParticipants
    \/ \E i \in 1..Len(participants) : RemoveParticipant(i)

SpecStore == Init /\ [][NextStore]_vars

\* The same operations with every outcome of Math.random.
NextRandom ==
    \/ \E text \in Texts : SetInputText(text)
    \/ HandleAddFromText(RandomRoom)
    \/ ToggleAutoDeduplicate
    \/ Deduplicate
    \/ ClearParticipants
    \/ \E i \in 1..Len(participants) : RemoveParticipant(i)

SpecRandom == Init /\ [][NextRandom]_vars

\* The participant store with file uploads, whose parses complete later.
UploadTexts == { <<" ", "a", "\n", "A">>, <<"b", "\n", " ">> }

NextUpload ==
    \/ \E text \in UploadTexts : SetInputText(text)
    \/ HandleAddFromText(UploadRoom)
    \/ ToggleAutoDeduplicate
    \/ \E data \in Files : HandleFileUpload(data)
    \/ \E i \in 1..Len(pendingParses) : ParseComplete(i, UploadRoom)
    \/ Deduplicate
    \/ ClearParticipants
    \/ \E i \in 1..Len(participants) : RemoveParticipant(i)

SpecUpload == Init /\ [][NextUpload]_vars

\* The draw engine with the store operations that change what it reads.  The
\* cells it never reads (groupSize, groups, pendingParses, autoDeduplicate)
\* keep their initial values.
DrawTexts == { <<"a">>, <<"b", "\n", " ">> }

NextDraw ==
    \/ \E text \in DrawTexts : SetInputText(text)
    \/ HandleAddFromText(DrawRoom)
    \/ ClearParticipants
    \/ \E i \in 1..Len(participants) : RemoveParticipant(i)
    \/ StartDraw(DrawRoom)
    \/ \E t \in 1..Len(timers) :
           \E shown \in 1..Len(ClosureAvailable(timers[t])) : Tick(t, shown)
    \/ ToggleAllowRepeat
    \/ ClearHistory

SpecDraw == Init /\ [][NextDraw]_vars

\* The draw engine and the grouping engine side by side, on short runs
\* with the group size left at its initial value.
NextSession ==
    \/ \E text \in DrawTexts : SetInputText(text)
    \/ HandleAddFromText(SessionRoom)
    \/ ClearParticipants
    \/ \E i \in 1..Len(participants) : RemoveParticipant(i)
    \/ StartDraw(SessionRoom)
    \/ \E t \in 1..Len(timers) :
           \E shown \in 1..Len(ClosureAvailable(timers[t])) : Tick(t, shown)
    \/ HandleGrouping

SpecSession == Init /\ [][NextSession]_vars

\* The same, with the People per Group input in use.
NextResize ==
    \/ \E text \in DrawTexts : SetInputText(text)
    \/ HandleAddFromText(SessionRoom)
    \/ ClearParticipants
    \/ \E i \in 1..Len(participants) : RemoveParticipant(i)
    \/ StartDraw(SessionRoom)
    \/ \E t \in 1..Len(timers) :
           \E shown \in 1..Len(ClosureAvailable(timers[t])) : Tick(t, shown)
    \/ \E s \in SizeInputs : SetGroupSize(s)
    \/ HandleGrouping

SpecResize == Init /\ [][NextResize]_vars

\* A session on a list that only grows, with the history panel's Clear
\* button and the Allow Repeated Winners switch in use.
NextReset ==
    \/ \E text \in DrawTexts : SetInputText(text)
    \/ HandleAddFromText(SessionRoom)
    \/ StartDraw(SessionRoom)
    \/ \E t \in 1..Len(timers) :
           \E shown \in 1..Len(ClosureAvailable(timers[t])) : Tick(t, shown)
    \/ ToggleAllowRepeat
    \/ ClearHistory
    \/ HandleGrouping

SpecReset == Init /\ [][NextReset]_vars

\* The grouping engine on every list of up to MaxGrouped entries (some of
\* them namesakes), with the removals that make a GroupSet stale.
RosterNames == << <<"a">>, <<"b">>, <<"a">> >>

Roster(n) ==
    [i \in 1..n |-> [id |-> i, name |-> RosterNames[((i - 1) % 3) + 1]]]

InitGroup ==
    \E n \in 0..MaxGrouped :
        /\ participants = Roster(n)
        /\ nextId = n + 1
        /\ inputText = <<>>
        /\ autoDeduplicate = FALSE
        /\ drawHistory = <<>>
        /\ isDrawing = FALSE
        /\ currentWinner = NoWinner
        /\ allowRepeat = FALSE
        /\ groupSize = 3
        /\ groups = <<>>
        /\ pendingParses = <<>>
        /\ timers = <<>>
        /\ hung = FALSE
        /\ last = Note("Init", <<>>)
        /\ cleanRun = TRUE
        /\ clearedAt = 0
        /\ download = <<>>

NextGroup ==
    \/ ClearParticipants
    \/ \E i \in 1..Len(participants) : RemoveParticipant(i)
    \/ \E s \in SizeInputs : SetGroupSize(s)
    \/ HandleGrouping

SpecGroup == InitGroup /\ [][NextGroup]_vars

\* The export of the GroupSets Generate Groups leaves for a list of up to
\* MaxExported entries and a group size of 1, 2 or 3, when the shuffle came
\* to a rotation of the list.
Rotate(seq, r) == [i \in 1..Len(seq) |-> seq[((i - 1 + r) % Len(seq)) + 1]]

InitExport ==
    \E n \in 1..MaxExported, size \in 1..3 :
        \E r \in 0..(n - 1) :
            /\ participants = Roster(n)
            /\ nextId = n + 1
            /\ groupSize = size
            /\ groups = GroupingLoop(Rotate(Roster(n), r), size, 0, <<>>,
                                     n + 1).newGroups
            /\ inputText = <<>>
            /\ autoDeduplicate = FALSE
            /\ drawHistory = <<>>
            /\ isDrawing = FALSE
            /\ currentWinner = NoWinner
            /\ allowRepeat = FALSE
            /\ pendingParses = <<>>
            /\ timers = <<>>
            /\ hung = FALSE
            /\ last = Note("HandleGrouping", 0)
            /\ cleanRun = TRUE
            /\ clearedAt = 0
            /\ download = <<>>

NextExport == ExportGroupsCSV

SpecExport == InitExport /\ [][NextExport]_vars

\* The grouping engine on lists that grow and shrink, with every outcome of
\* Math.random for the ids.
NextRandomGroup ==
    \/ \E text \in DrawTexts : SetInputText(text)
    \/ HandleAddFromText(RandomRoom)
    \/ \E i \in 1..Len(participants) : RemoveParticipant(i)
    \/ \E s \in SizeInputs : SetGroupSize(s)
    \/ HandleGrouping

SpecRandomGroup == Init /\ [][NextRandomGroup]_vars

-----------------------------------------------------------------------------
(* Properties of the draw engine, checked under SpecDraw *)

Range(seq) == {seq[i] : i \in 1..Len(seq)}

\* the final tick: the only step that clears the in-progress flag
Commits == isDrawing /\ ~isDrawing'

\* C1: a draw is started with the eligible set of that moment, which is not
\* empty; the set a live timer holds never changes, whatever happens to the
\* participants, the history or allowRepeat during the reveal; and the commit
\* on the final tick puts one new entry in front of the unchanged history,
\* a member of the set its timer has held since the draw started.
C1_CommitAddsEligibleWinner ==
    [][ /\ Len(timers') > Len(timers) =>
              /\ timers' = Append(timers, timers'[Len(timers')])
              /\ timers'[Len(timers')].available =
                     Available(participants, drawHistory, allowRepeat)
              /\ Len(timers'[Len(timers')].available) > 0
        /\ Len(timers') = Len(timers) =>
              \A t \in 1..Len(timers) : timers'[t].available = timers[t].available
        /\ Commits =>
              /\ Len(drawHistory') = Len(drawHistory) + 1
              /\ Tail(drawHistory') = drawHistory
              /\ \E t \in 1..Len(timers) :
                     /\ timers' = RemoveAt(timers, t)
                     /\ Head(drawHistory') \in Range(timers[t].available)
      ]_vars

\* a commit has just happened, and its winner had been removed from the
\* list while the reveal was running
C1_Witness ==
    /\ last.op = "Tick"
    /\ ~isDrawing
    /\ drawHistory # <<>>
    /\ Head(drawHistory) \notin Range(participants)
    /\ participants # <<>>

\* C2: as long as allowRepeat has never been switched on and the history has
\* never been cleared, the entries of the history have pairwise distinct ids.
C2_DistinctWinners ==
    cleanRun => Cardinality(IdSet(drawHistory)) = Len(drawHistory)

\* two draws have completed in such a run, and the first winner has been
\* removed from the list since
C2_Witness ==
    /\ cleanRun
    /\ last.op = "Tick"
    /\ ~isDrawing
    /\ Len(drawHistory) = 2
    /\ drawHistory[2] \notin Range(participants)
    /\ drawHistory[1] \in Range(participants)

\* C3: there is never more than one live timer, and while a draw is in
\* progress the DRAW NOW button starts nothing.
C3_OneRevealAtATime ==
    /\ Len(timers) <= 1
    /\ isDrawing => ~ENABLED StartDraw(DrawRoom)

\* a reveal is under way and the eligible set is not empty: only the
\* button's disabled attribute stands between a click and a second timer
C3_Witness ==
    /\ isDrawing
    /\ Len(timers) = 1
    /\ timers[1].counter > 0
    /\ Len(availableParticipants) > 0
    /\ Len(drawHistory) < MaxHistory

-----------------------------------------------------------------------------
(* Properties of the grouping engine, checked under SpecGroup *)

\* how often x occurs in seq
Count(seq, x) == Cardinality({i \in 1..Len(seq) : seq[i] = x})

RECURSIVE SumOfLengths(_)
SumOfLengths(gs) ==
    IF gs = <<>> THEN 0 ELSE Len(Head(gs)) + SumOfLengths(Tail(gs))

\* gs partitions a permutation of ps into chunks of size, the last one
\* possibly shorter
IsChunkedPermutation(gs, ps, size) ==
    /\ SumOfLengths(gs) = Len(ps)
    /\ \A k \in 1..Len(gs) - 1 : Len(gs[k]) = size
    /\ gs # <<>> => Len(gs[Len(gs)]) \in 1..size
    /\ \A x \in Range(ps) \cup Range(Flat(gs)) : Count(Flat(gs), x) = Count(ps, x)

\* the step is a click on Generate Groups
Generates == last'.op = "HandleGrouping"

\* C4: a Generate Groups click on a list that is not empty, with a group size
\* of at least 1, leaves groups whose lengths sum to the length of the list,
\* all of the group size but possibly the last, which holds between 1 and
\* group size entries, and whose concatenation holds every participant of
\* the list exactly as often as the list does.
C4_GroupsPartitionTheList ==
    [][ (Generates /\ groupSize >= 1) =>
            /\ Len(participants) >= 1
            /\ ~hung'
            /\ IsChunkedPermutation(groups', participants, groupSize)
      ]_vars

\* four participants, two of them namesakes, have just been put in a group
\* of three and a last group of one
C4_Witness ==
    /\ last.op = "HandleGrouping"
    /\ ~hung
    /\ Len(participants) = 4
    /\ groupSize = 3
    /\ Len(groups) = 2
    /\ Len(groups[1]) = 3
    /\ Len(groups[2]) = 1
    /\ IsChunkedPermutation(groups, participants, groupSize)
    /\ Flat(groups) # participants

\* C5, as the specification states it: a Generate Groups request on an empty
\* list or with a group size below 1 returns, and leaves the GroupSet as it
\* was.
C5_InvalidRequestIsNoOp ==
    [][ (Generates /\ (Len(participants) = 0 \/ groupSize < 1)) =>
            /\ ~hung'
            /\ groups' = groups
      ]_vars

-----------------------------------------------------------------------------
(* Properties of the participant store, checked under SpecStore (C6, C8) and
   SpecUpload (C7) *)

\* the entries a step appends to the list
Appended == SubSeq(participants', Len(participants) + 1, Len(participants'))

Names(ps) == [i \in 1..Len(ps) |-> ps[i].name]

\* the indices of seq whose element occurs at no lower index
FirstOccurrences(seq) ==
    {i \in 1..Len(seq) : \A j \in 1..(i - 1) : seq[j] # seq[i]}

\* seq restricted to the indices in keep, in the order of seq
RECURSIVE Restrict(_, _, _)
Restrict(seq, keep, i) ==
    IF i > Len(seq) THEN <<>>
    ELSE IF i \in keep THEN <<seq[i]>> \o Restrict(seq, keep, i + 1)
    ELSE Restrict(seq, keep, i + 1)

\* C6: a click on Add with Auto-Deduplicate on leaves the old entries in
\* place and appends, for the trimmed non-blank lines of the text in their
\* order, exactly the first occurrence of every name that no old entry has:
\* no appended name is the name of an old entry and no two appended names
\* are equal.
C6_TextImportDeduplicates ==
    [][ (last'.op = "HandleAddFromText" /\ autoDeduplicate) =>
            LET names == CleanNames(SplitLines(inputText))
                fresh == {i \in FirstOccurrences(names) :
                              names[i] \notin NameSet(participants)}
            IN
            /\ SubSeq(participants', 1, Len(participants)) = participants
            /\ \A k \in 1..Len(Appended) :
                   /\ Appended[k].name \notin NameSet(participants)
                   /\ \A l \in 1..Len(Appended) :
                          Appended[l].name = Appended[k].name => l = k
            /\ Names(Appended) = Restrict(names, fresh, 1)
            /\ \A k \in 1..Len(Appended) :
                   \E i \in fresh : /\ Appended[k].id = nextId + i - 1
                                    /\ Appended[k].name = names[i]
      ]_vars

\* the text just added held the same name twice, once with white space
\* around it; its first occurrence is in the list and its second is not
C6_Witness ==
    /\ last.op = "HandleAddFromText"
    /\ autoDeduplicate
    /\ Len(last.note) = 2
    /\ last.note[1] = last.note[2]
    /\ (nextId - 2) \in IdSet(participants)
    /\ (nextId - 1) \notin IdSet(participants)
    /\ Len(participants) >= 2

\* C7, as the specification states it: the entries a parse completion
\* appends under Auto-Deduplicate carry no name that an entry of the list
\* they are appended to has, and no name twice.
C7_FileImportDeduplicates ==
    [][ (last'.op = "ParseComplete" /\ autoDeduplicate /\
         \E i \in 1..Len(pendingParses) :
             /\ pendingParses' = RemoveAt(pendingParses, i)
             /\ pendingParses[i].autoDeduplicate) =>
            /\ SubSeq(participants', 1, Len(participants)) = participants
            /\ \A k \in 1..Len(Appended) :
                   /\ Appended[k].name \notin NameSet(participants)
                   /\ \A l \in 1..Len(Appended) :
                          Appended[l].name = Appended[k].name => l = k
      ]_vars

\* C8: a click on Manual Deduplicate leaves exactly the first entry of every
\* name, in the order the list had.
C8_DeduplicateKeepsFirsts ==
    [][ last'.op = "Deduplicate" =>
            /\ participants' =
                   Restrict(participants, FirstOccurrences(Names(participants)), 1)
            /\ NameSet(participants') = NameSet(participants)
            /\ \A i, j \in 1..Len(participants') :
                   participants'[i].name = participants'[j].name => i = j
      ]_vars

\* a list of three with two namesakes has just been deduplicated to two
\* entries, the later namesake gone
C8_Witness ==
    /\ last.op = "Deduplicate"
    /\ Len(last.note) = 3
    /\ Len(participants) = 2
    /\ participants[1] = last.note[1]
    /\ \E k \in 2..3 : last.note[k].name = last.note[1].name

-----------------------------------------------------------------------------
(* Properties of a session with draws and groupings, checked under SpecSession
   (C9) and SpecResize (C10) *)

\* C9: in the state a click on Clear All leaves, the ParticipantList, the
\* draw history and the GroupSet are empty.
C9_ClearEmptiesEverything ==
    last.op = "ClearParticipants" =>
        /\ participants = <<>>
        /\ drawHistory = <<>>
        /\ groups = <<>>

\* Clear All has just been clicked on a session that had a winner in its
\* history and a generated GroupSet
C9_Witness ==
    /\ last.op = "ClearParticipants"
    /\ last.note.history > 0
    /\ last.note.groups > 0

\* some live timer's callback can run
TickEnabled ==
    ENABLED (\E t \in 1..Len(timers) :
                 \E shown \in 1..Len(ClosureAvailable(timers[t])) : Tick(t, shown))

\* C10, as the specification states it: a draw in progress has one live timer
\* that has run fewer than 40 times and whose next tick can always run, so
\* that the draw reaches its commit; once the engine is idle no timer is left.
C10_DrawRunsToCompletion ==
    /\ isDrawing =>
           /\ Len(timers) = 1
           /\ timers[1].counter < steps
           /\ TickEnabled
    /\ ~isDrawing => timers = <<>>

-----------------------------------------------------------------------------
(* More properties of the draw engine, checked under SpecDraw *)

\* the eligible set as a set: every participant when repeats are allowed,
\* else the participants whose id is nowhere in the history
Eligible ==
    {p \in Range(participants) : allowRepeat \/ p.id \notin IdSet(drawHistory)}

\* C11: with an empty eligible set (an empty list, or repeats not allowed and
\* every participant's id in the history) DRAW NOW starts nothing: no click
\* on it gets through, and no step taken from such a state is the start of a
\* draw, adds a timer or sets the in-progress flag.
C11_EmptyEligibleSetStartsNothing ==
    /\ [](Eligible = {} => ~ENABLED StartDraw(DrawRoom))
    /\ [][ Eligible = {} =>
               /\ last'.op # "StartDraw"
               /\ Len(timers') <= Len(timers)
               /\ isDrawing' => isDrawing
         ]_vars

\* the engine is idle and everybody on the list has won already, with
\* repeats not allowed and room for more draws
C11_Witness ==
    /\ Eligible = {}
    /\ participants # <<>>
    /\ ~allowRepeat
    /\ ~isDrawing
    /\ last.op = "Tick"
    /\ Len(drawHistory) < MaxHistory

-----------------------------------------------------------------------------
(* More properties of the participant store, checked under SpecStore *)

\* the positions of ps whose entry does not have this id
PositionsWithout(ps, id) == {i \in 1..Len(ps) : ps[i].id # id}

\* C12: a click on a row's remove button deletes the entries with the row's id
\* and keeps the others in their order; the removal applied again, or applied
\* with an id no entry has, returns the list it is given.
C12_RemoveIsIdempotent ==
    /\ [](\A id \in 1..MaxId :
              /\ WithoutId(WithoutId(participants, id), id) =
                     WithoutId(participants, id)
              /\ id \notin IdSet(participants) =>
                     WithoutId(participants, id) = participants)
    /\ [][ last'.op = "RemoveParticipant" =>
               /\ last'.note \in IdSet(participants)
               /\ last'.note \notin IdSet(participants')
               /\ participants' =
                      Restrict(participants,
                               PositionsWithout(participants, last'.note), 1)
         ]_vars

\* an entry has just been removed from between two others, which are still
\* there
C12_Witness ==
    /\ last.op = "RemoveParticipant"
    /\ last.note \notin IdSet(participants)
    /\ \E i \in 1..Len(participants) - 1 :
           /\ participants[i].id < last.note
           /\ participants[i + 1].id > last.note

-----------------------------------------------------------------------------
(* Draws and Clear All, checked under SpecDraw *)

\* C13, as the specification states it: every entry of the draw history
\* belongs to a participant added after the last Clear All, that is, carries
\* an id handed out after it.
C13_ClearResetsHistoryForGood ==
    \A k \in 1..Len(drawHistory) : drawHistory[k].id > clearedAt

\* C14: currentWinner is null in the initial state and only the start of a
\* draw and the ticks change it; a draw starts with a timer that holds the
\* eligible set of that moment; and throughout a reveal currentWinner is null
\* or a member of the set the timer has held since, whatever the eligible set
\* has become.
C14_DisplayComesFromTheStartSet ==
    /\ currentWinner = NoWinner
    /\ [][ /\ currentWinner' # currentWinner => last'.op \in {"StartDraw", "Tick"}
           /\ last'.op = "StartDraw" =>
                  /\ currentWinner' = NoWinner
                  /\ Range(timers'[Len(timers')].available) = Eligible
         ]_vars
    /\ [](isDrawing =>
              \/ currentWinner = NoWinner
              \/ \E t \in 1..Len(timers) :
                     currentWinner \in Range(timers[t].available))

\* in the middle of a reveal the display shows a participant who is not
\* eligible any more, while somebody else is
C14_Witness ==
    /\ isDrawing
    /\ Len(timers) = 1
    /\ timers[1].counter > 1
    /\ currentWinner # NoWinner
    /\ currentWinner \notin Eligible
    /\ Eligible # {}

\* C15: the commit is one step: the step that clears the in-progress flag is
\* a tick that removes its timer and leaves currentWinner equal to the new
\* head of the history, and the history gains an entry in no other step.
C15_CommitIsAtomic ==
    [][ /\ Commits =>
               /\ last'.op = "Tick"
               /\ Len(timers') = Len(timers) - 1
               /\ Len(drawHistory') = Len(drawHistory) + 1
               /\ currentWinner' = Head(drawHistory')
        /\ Len(drawHistory') > Len(drawHistory) => Commits
      ]_vars

\* a commit whose winner is not the participant the same tick's flicker had
\* picked
C15_Witness ==
    /\ last.op = "Tick"
    /\ ~isDrawing
    /\ drawHistory # <<>>
    /\ currentWinner = Head(drawHistory)
    /\ last.note # <<>>
    /\ last.note[1] # currentWinner

-----------------------------------------------------------------------------
(* The ParticipantList's invariant, checked under SpecRandom *)

\* no entry of ps has the id of another
DistinctIds(ps) == \A i, j \in 1..Len(ps) : ps[i].id = ps[j].id => i = j

\* s is not empty and starts and ends with a character that is no white space
IsTrimmedName(s) ==
    /\ s # <<>>
    /\ s[1] \notin WhiteSpace
    /\ s[Len(s)] \notin WhiteSpace

\* sub is seq with some of its entries deleted
IsSubsequence(sub, seq) ==
    \E keep \in SUBSET (1..Len(seq)) : sub = Restrict(seq, keep, 1)

\* the list keeps the order of the entries it retains: an import leaves the
\* old list as a prefix, a removal or a deduplication only deletes
KeepsOrder ==
    \/ participants' = participants
    \/ /\ last'.op \in {"HandleAddFromText", "ParseComplete"}
       /\ SubSeq(participants', 1, Len(participants)) = participants
    \/ /\ last'.op \in {"RemoveParticipant", "Deduplicate"}
       /\ IsSubsequence(participants', participants)

\* C16, as the specification states it: no two entries of the list have the
\* same id, every name is trimmed and not empty, and every step but Clear All
\* keeps the order of the entries it retains.
C16_ListIsWellFormed ==
    /\ [](/\ DistinctIds(participants)
          /\ \A i \in 1..Len(participants) : IsTrimmedName(participants[i].name))
    /\ [][last'.op # "ClearParticipants" => KeepsOrder]_vars

\* the two other parts of C16, which hold with every outcome of Math.random
TrimmedNamesInOrder ==
    /\ [](\A i \in 1..Len(participants) : IsTrimmedName(participants[i].name))
    /\ [][last'.op # "ClearParticipants" => KeepsOrder]_vars

-----------------------------------------------------------------------------
(* Text import without deduplication, checked under SpecStore *)

\* every character of the line is white space
IsBlank(line) == \A i \in 1..Len(line) : line[i] \in WhiteSpace

\* n is the line without the white space at its two ends
IsTrimOf(n, line) ==
    /\ IsTrimmedName(n)
    /\ \E i, j \in 1..Len(line) :
           /\ SubSeq(line, i, j) = n
           /\ IsBlank(SubSeq(line, 1, i - 1))
           /\ IsBlank(SubSeq(line, j + 1, Len(line)))

\* C17: a click on Add leaves the old entries as a prefix of the list and
\* appends trimmed names of lines of the text that are not blank, in the
\* order of the lines; with Auto-Deduplicate off it appends one entry for
\* every such line, namesakes included; a text with blank lines only leaves
\* the list as it was.
C17_TextImportAppendsInOrder ==
    [][ last'.op = "HandleAddFromText" =>
            LET lines == SplitLines(inputText)
                kept == {i \in 1..Len(lines) : ~IsBlank(lines[i])}
                survivors == Restrict(lines, kept, 1)
            IN
            /\ SubSeq(participants', 1, Len(participants)) = participants
            /\ \E keep \in SUBSET (1..Len(survivors)) :
                   LET added == Restrict(survivors, keep, 1) IN
                   /\ Len(Appended) = Len(added)
                   /\ \A k \in 1..Len(added) :
                          IsTrimOf(Appended[k].name, added[k])
                   /\ ~autoDeduplicate => keep = 1..Len(survivors)
            /\ kept = {} => participants' = participants
      ]_vars

\* with Auto-Deduplicate off, a text with the same name on two lines and a
\* blank line between them has just been added to a list that had the name
\* already: the list ends with three namesakes
C17_Witness ==
    /\ last.op = "HandleAddFromText"
    /\ ~autoDeduplicate
    /\ Len(last.note) = 2
    /\ last.note[1] = last.note[2]
    /\ Len(participants) >= 3
    /\ \A k \in (Len(participants) - 2)..Len(participants) :
           participants[k].name = last.note[1]

-----------------------------------------------------------------------------
(* What the operations leave alone, checked under SpecSession (C18) and
   SpecReset (C19, C20) *)

\* C18: a click on a row's remove button changes the ParticipantList and
\* nothing else: the draw history, the GroupSet, the display and the running
\* reveal stay as they were.
C18_RemoveChangesOnlyTheList ==
    [][ last'.op = "RemoveParticipant" =>
            /\ participants' # participants
            /\ drawHistory' = drawHistory
            /\ groups' = groups
            /\ currentWinner' = currentWinner
            /\ isDrawing' = isDrawing
            /\ timers' = timers
      ]_vars

\* the participant just removed is still in the draw history and in a group
C18_Witness ==
    /\ last.op = "RemoveParticipant"
    /\ last.note \notin IdSet(participants)
    /\ last.note \in IdSet(drawHistory)
    /\ last.note \in IdSet(Flat(groups))

\* C19: a click on the history panel's Clear empties the history and leaves
\* the ParticipantList and the GroupSet as they were; with repeats not allowed
\* the whole list is eligible in the state it leaves, DRAW NOW is enabled
\* when the list is not empty and the engine idle, and a draw started then
\* starts with the whole list.
C19_ClearHistoryRestoresEligibility ==
    /\ [][ last'.op = "ClearHistory" =>
               /\ drawHistory' = <<>>
               /\ participants' = participants
               /\ groups' = groups
               /\ allowRepeat' = allowRepeat
         ]_vars
    /\ []((last.op = "ClearHistory" /\ ~allowRepeat) =>
              /\ Eligible = Range(participants)
              /\ (participants # <<>> /\ ~isDrawing) =>
                     ENABLED StartDraw(SessionRoom))
    /\ [][ (last.op = "ClearHistory" /\ ~allowRepeat /\ last'.op = "StartDraw") =>
               timers'[Len(timers')].available = participants
         ]_vars

\* the history just cleared held the winner on display, who is on the list
\* and in a group, and nobody else is on the list
C19_Witness ==
    /\ last.op = "ClearHistory"
    /\ last.note > 0
    /\ ~allowRepeat
    /\ ~isDrawing
    /\ participants = <<currentWinner>>
    /\ groups # <<>>

\* C20: a click on Generate Groups with a group size of at least 1 returns and
\* leaves a GroupSet made of the whole ParticipantList and nothing else: its
\* members are the entries of the list, each as often as the list has it,
\* whoever is in the draw history and whatever allowRepeat is, and no member
\* of the GroupSet it replaces is carried over; the list, the history, the
\* display and the running reveal stay as they were.
C20_GroupingReplacesAndLeavesTheRest ==
    [][ (Generates /\ groupSize >= 1) =>
            /\ ~hung'
            /\ Len(Flat(groups')) = Len(participants)
            /\ \A x \in Range(participants) \cup Range(Flat(groups')) :
                   Count(Flat(groups'), x) = Count(participants, x)
            /\ participants' = participants
            /\ drawHistory' = drawHistory
            /\ allowRepeat' = allowRepeat
            /\ currentWinner' = currentWinner
            /\ isDrawing' = isDrawing
            /\ timers' = timers
      ]_vars

\* groups have just been generated from the whole of a list one of whose
\* entries has won already and is not eligible, in place of a GroupSet that
\* had fewer members
C20_Witness ==
    /\ last.op = "HandleGrouping"
    /\ ~hung
    /\ ~allowRepeat
    /\ \E p \in Range(participants) : p \notin Eligible
    /\ last.note \in 1..(Len(participants) - 1)
    /\ Len(Flat(groups)) = Len(participants)

-----------------------------------------------------------------------------
(* The GroupSet's invariant, checked under SpecRandomGroup *)

\* no group of the GroupSet is empty
NoEmptyGroup == \A g \in 1..Len(groups) : groups[g] # <<>>

\* C21, as the specification states it: no group of the GroupSet is empty and
\* no id occurs twice across its groups.
C21_GroupsAreDisjointAndNonEmpty ==
    /\ NoEmptyGroup
    /\ DistinctIds(Flat(groups))

-----------------------------------------------------------------------------
(* The export, checked under SpecExport *)

\* the number of members of the groups before the g-th
MembersBefore(gs, g) == SumOfLengths(SubSeq(gs, 1, g - 1))

\* the label reads "Group ", then the number g in decimal digits without a
\* leading zero
IsLabelOf(label, g) ==
    /\ Len(label) > 6
    /\ SubSeq(label, 1, 6) = <<"G", "r", "o", "u", "p", " ">>
    /\ \A k \in 7..Len(label) : label[k] \in Digits
    /\ label[7] # "0"
    /\ ParseInt(SubSeq(label, 7, Len(label))).value = g

\* C22: the file just exported has as many data rows as the groups have
\* members, and the row of the m-th member of the g-th group, which comes
\* after the rows of the groups before and of the members before, carries
\* the label "Group g" and the member's name.
C22_ExportListsEveryMember ==
    last.op = "ExportGroupsCSV" =>
        /\ Len(download) = SumOfLengths(groups)
        /\ \A g \in 1..Len(groups) :
               \A m \in 1..Len(groups[g]) :
                   LET row == download[MembersBefore(groups, g) + m] IN
                   /\ IsLabelOf(row.Group, g)
                   /\ row.Name = groups[g][m].name

\* eleven groups have just been exported, ten of two members and a last one
\* of one, whose row is labelled "Group 11"
C22_Witness ==
    /\ last.op = "ExportGroupsCSV"
    /\ Len(groups) = 11
    /\ Len(groups[1]) = 2
    /\ Len(groups[11]) = 1
    /\ Len(download) = 21
    /\ download[21].Group = <<"G", "r", "o", "u", "p", " ", "1", "1">>
    /\ download[21].Name = groups[11][1].name
    /\ download[2].Name # download[1].Name

====
